---- MODULE Spec2Model ----
(***************************************************************************)
(* Model of the PostGIS plugin's Connection class                          *)
(* (plugins/input/postgis/connection.hpp) in its two source variants:      *)
(* the variant with the asynchronous query protocol ("connection_hpp")     *)
(* and the older variant without it ("part_000").                          *)
(*                                                                         *)
(* The libpq handle is the environment: every libpq call returns a value   *)
(* chosen nondeterministically among the values the call can return.  The  *)
(* handle is modelled by the number of result objects it still has queued  *)
(* (the status of a result object is drawn when it is fetched), by its     *)
(* connection status and by whether it is busy.  Result objects are        *)
(* numbered in the order PQgetResult hands them out; the model records     *)
(* which are held by the Connection, which were released with PQclear and  *)
(* which were handed to the caller inside a ResultSet.                     *)
(***************************************************************************)
EXTENDS Integers, Sequences, FiniteSets, TLC

\* ---------------------------------------------------------------- bounds
\* number of public calls made on one Connection object
MaxOps == 4
\* number of result objects the handle has queued at any time
MaxResults == 2

\* ------------------------------------------------------------- constants
\* statement_timeout_(4000), in milliseconds
statement_timeout_ == 4000

Variants == {"connection_hpp", "part_000"}

\* PQresultStatus of a result object in the COPY states of the handle: as
\* long as the handle is in such a state, every PQgetResult call returns
\* another result object of that status, PQisBusy is false and PQsendQuery
\* is refused
CopyStatuses == {"PGRES_COPY_OUT", "PGRES_COPY_IN", "PGRES_COPY_BOTH"}

\* PQresultStatus values: the two the code tests for, an error result, and
\* the COPY statuses
Statuses == {"PGRES_TUPLES_OK", "PGRES_COMMAND_OK", "PGRES_FATAL_ERROR"}
               \cup CopyStatuses

\* the statuses of result objects that PQgetResult hands over once
FinalStatuses == Statuses \ CopyStatuses

\* The timer of executeQuery (mapnik::timer) is not part of these sources;
\* it is modelled from the specification: "a timer started at submission
\* time", read as the elapsed time since submission.
\* Readings of timer::wall_clock_elapsed(), in microseconds since the timer
\* was started (the timer returns fractional milliseconds).
Times == {0, 4000000, 4000500, 4001000}

\* the readings the timer can give when prev is the least time that has
\* elapsed since submission: time does not run backwards
TimerReadings(prev) == {now \in Times \cup {prev} : now >= prev}

\* the least time elapsed since submission after a wait of d microseconds
\* that began when prev had elapsed
AfterWait(prev, d) == prev + d

\* the outcomes of a call that are errors raised to the caller
Errors == {"ConnectionFailed", "QueryFailed_submit", "QueryFailed_status",
           "QueryFailed_async", "timeout", "select_error"}

\* the public calls that perform protocol operations on the handle
ProtocolOps == {"execute", "executeQuery", "executeAsyncQuery",
                "getNextAsyncResult", "getAsyncResult", "client_encoding"}

VARIABLES
    variant,        \* which source variant is running
    phase,          \* "none", "alive", "ctor_threw", "destroyed", "crashed",
                    \* "hung" (a call that never returns)
    conn_,          \* "unset", "NULL" or "handle"
    connStatus,     \* PQstatus of the handle
    cursorId,
    closed_,
    pending_,
    queued,         \* result objects the handle still has to deliver
    busy,           \* PQisBusy of the handle
    pc,             \* position inside execute/executeQuery, or "idle"
    result,         \* executeQuery's local PGresult* result (0 is null)
    ok,             \* executeQuery's local ok
    elapsed,        \* last reading of the executeQuery timer (microseconds)
    msleft,         \* executeQuery's local msleft
    nextId,         \* number the next result object gets
    held,           \* result objects obtained and still owned
    released,       \* result objects released with PQclear
    returned,       \* result objects handed to the caller in a ResultSet
    doubleFree,     \* a result object was released twice or after return
    finishCount,    \* number of PQfinish calls on the handle
    uaf,            \* a libpq call was made on the handle after PQfinish
    opCount,        \* number of public calls made
    lastOp,         \* name of the current or last public call
    lastOutcome,    \* how the last public call ended ("running" inside one)
    lastResult,     \* result object inside the last returned ResultSet
    callObtained,   \* result objects obtained from the handle in this call
    callPending,    \* value of pending_ when the last submitting call began
    callClosed,     \* value of closed_ when the last call began
    busyAtBudget,   \* executeQuery found the handle busy at elapsed >= budget
    asyncSubmitted, \* some executeAsyncQuery returned successfully
    asyncQueued,    \* results of an asynchronous submit are still queued
    submitPending,  \* a query was submitted while pending_ was true
    submitUndrained,\* a query was submitted while asyncQueued
    stale,          \* queued result objects that belong to earlier calls
    ctorErr,        \* text of the error the constructor raised
    givenStr,       \* connection_str of a constructor call that threw
    givenPass,      \* password of a constructor call that threw
    callSent,       \* what the submission of the last submitting call returned
    callLast,       \* status of the last result object the last call fetched
    callDrained,    \* executeQuery's PQgetResult returned null in this call
    names,          \* the names new_cursor_name has returned
    lastName,       \* the name the last new_cursor_name call returned
    cursorCalls,    \* number of new_cursor_name calls
    waited,         \* microseconds executeQuery spent in select, this call
    copyState,      \* the COPY status the handle is in, or "none"
    inFlight        \* a statement was submitted to the handle and
                    \* PQgetResult has not returned null since

vars == <<variant, phase, conn_, connStatus, cursorId, closed_, pending_,
          queued, busy, pc, result, ok, elapsed, msleft, nextId, held,
          released, returned, doubleFree, finishCount, uaf, opCount, lastOp,
          lastOutcome, lastResult, callObtained, callPending, callClosed,
          busyAtBudget, asyncSubmitted, asyncQueued, submitPending,
          submitUndrained, stale, ctorErr, givenStr, givenPass,
          callSent, callLast, callDrained, names, lastName, cursorCalls,
          waited, copyState, inFlight>>

\* the fields of the object and the state of the resources it owns
CoreState == <<conn_, connStatus, cursorId, closed_, pending_, queued, busy,
               held, released, returned, finishCount>>

\* the handle exists and PQfinish was not called on it
HandleLive == conn_ = "handle" /\ finishCount = 0

\* ------------------------------------------------------- pure functions
\* isOK() that looks at the handle only, not at closed_
isOK_ignoresClosed == connStatus # "CONNECTION_BAD"

\* bool isOK() const
isOK == (~closed_) /\ (connStatus # "CONNECTION_BAD")

\* bool isPending() const
isPending == pending_

\* std::string status() const
status ==
    IF conn_ = "handle"
    THEN IF isOK THEN "PQerrorMessage" ELSE "Bad connection"
    ELSE "Uninitialized connection"

\* status() as the constructor calls it, before close(): conn is the value
\* PQconnectdb returned, st the PQstatus of the handle, closed_ is false
StatusInCtor(conn, st) ==
    IF conn = "handle"
    THEN IF (~FALSE) /\ (st # "CONNECTION_BAD")
         THEN "PQerrorMessage" ELSE "Bad connection"
    ELSE "Uninitialized connection"

\* connection strings and passwords given to the constructor; "none" is
\* the absent optional
ConnStrs == {"host=db", "host=nowhere"}
Passwords == {"none", "", "secret"}

\* connect_with_pass: the password is appended if present and not empty
ConnectWithPass(str, pw) ==
    IF pw # "none" /\ pw # ""
    THEN <<str, " password=", pw>>
    ELSE <<str>>

\* err_msg of the constructor, as the sequence of the strings appended
CtorErrMsg(st, str) ==
    <<"Postgis Plugin: ", st, "\nConnection string: '", str, "'\n">>

\* conversion of a double to int: truncation toward zero
TruncDiv(a, b) == IF a >= 0 THEN a \div b ELSE -((-a) \div b)

\* int msleft = statement_timeout_ - timeout.wall_clock_elapsed();
MsLeft(now) == TruncDiv(statement_timeout_ * 1000 - now, 1000)

\* the values select() can return for a timeout of ms milliseconds:
\* a negative tv_usec is an invalid timeout (EINVAL)
SelectReturns(ms) == IF ms < 0 THEN {-1} ELSE {-1, 0, 1}

\* the result objects PQgetResult hands out when it is called n times
NewIds(n) == nextId .. (nextId + n - 1)

\* what PQstatus can report after an input or output operation failed:
\* libpq marks the handle CONNECTION_BAD when it finds the connection lost
StatusAfterIO == {connStatus, "CONNECTION_BAD"}

\* Number of result objects a statement can add to the handle's queue.
\* Calls on a handle PQfinish has freed are undefined: what the handle
\* holds then is whatever the freed block holds, so a submission finds
\* result objects there as it does on a live handle.
CanQueue == 0 .. (MaxResults - queued)

\* How many result objects PQgetResult hands over before it returns null
\* to a call that submits nothing: those queued on a live handle, any
\* number on a freed one.  (Result objects without end are the outcome
\* "never_returns" of the calls.)
Delivers ==
    IF HandleLive THEN {queued} ELSE {queued + k : k \in CanQueue}


\* ------------------------------------------------------------------ Init
\* the state before the constructor runs
Init ==
    /\ variant \in Variants
    /\ phase = "none"
    /\ conn_ = "unset"
    /\ connStatus = "none"
    /\ cursorId = 0
    /\ closed_ = FALSE
    /\ pending_ = FALSE
    /\ queued = 0
    /\ busy = FALSE
    /\ pc = "idle"
    /\ result = 0
    /\ ok = FALSE
    /\ elapsed = 0
    /\ msleft = 0
    /\ nextId = 1
    /\ held = {}
    /\ released = {}
    /\ returned = {}
    /\ doubleFree = FALSE
    /\ finishCount = 0
    /\ uaf = FALSE
    /\ opCount = 0
    /\ lastOp = "none"
    /\ lastOutcome = "none"
    /\ lastResult = 0
    /\ callObtained = {}
    /\ callPending = FALSE
    /\ callClosed = FALSE
    /\ busyAtBudget = FALSE
    /\ asyncSubmitted = FALSE
    /\ asyncQueued = FALSE
    /\ submitPending = FALSE
    /\ submitUndrained = FALSE
    /\ stale = 0
    /\ ctorErr = <<>>
    /\ givenStr = "none"
    /\ givenPass = "none"
    /\ callSent = 0
    /\ callLast = "none"
    /\ callDrained = FALSE
    /\ names = {}
    /\ lastName = <<>>
    /\ cursorCalls = 0
    /\ waited = 0
    /\ copyState = "none"
    /\ inFlight = FALSE

\* variables no lifecycle operation touches
queryLocals == <<pc, result, ok, elapsed, msleft, busyAtBudget>>
resultObjects == <<nextId, held, released, returned, doubleFree>>
asyncGhosts == <<asyncSubmitted, submitPending, submitUndrained,
                 callPending>>
ctorText == <<ctorErr, givenStr, givenPass>>
callTrace == <<callSent, callLast, callDrained>>
cursorNames == <<names, lastName, cursorCalls>>

\* --------------------------------------------------------------- close()
\* close() without its guard: PQfinish(conn_) whatever closed_ is
FinishAfterClose_unguarded ==
    IF conn_ = "handle" THEN finishCount + 1 ELSE finishCount

\* number of PQfinish calls on the handle after close() ran:
\* if (! closed_) { PQfinish(conn_); closed_ = true; }
FinishAfterClose ==
    IF (~closed_) /\ conn_ = "handle" THEN finishCount + 1 ELSE finishCount

\* closed_ after close() ran
ClosedAfterClose == TRUE

\* close() called on the constructed object: the handle is released unless
\* closed_ is already true, and with it what the handle had queued
CloseEffect ==
    /\ finishCount' = FinishAfterClose
    /\ closed_' = ClosedAfterClose
    /\ IF closed_
       THEN UNCHANGED <<queued, stale, busy, asyncQueued, inFlight>>
       ELSE /\ queued' = 0
            /\ inFlight' = FALSE
            /\ stale' = 0
            /\ busy' = FALSE
            /\ asyncQueued' = FALSE

\* whether the constructor of this variant calls close() before it throws
CtorClosesOnFailure == variant = "connection_hpp"

\* ------------------------------------------------------------ Connection
\* Connection(connection_str, password): PQconnectdb returns no handle, a
\* handle whose status is CONNECTION_OK, or one whose status is not
Construct ==
    /\ phase = "none"
    /\ \E c \in {"NULL", "CONNECTION_OK", "CONNECTION_BAD"} :
        /\ conn_' = IF c = "NULL" THEN "NULL" ELSE "handle"
        /\ connStatus' = IF c = "NULL" THEN "CONNECTION_BAD" ELSE c
        /\ IF c = "CONNECTION_OK"
           THEN /\ phase' = "alive"
                /\ lastOutcome' = "constructed"
                /\ UNCHANGED <<closed_, finishCount>>
                /\ UNCHANGED ctorText
           ELSE /\ phase' = "ctor_threw"
                /\ lastOutcome' = "ConnectionFailed"
                /\ \E str \in ConnStrs, pw \in Passwords :
                     /\ givenStr' = str
                     /\ givenPass' = pw
                     /\ ctorErr' = CtorErrMsg(
                            StatusInCtor(conn_', connStatus'), str)
                /\ IF CtorClosesOnFailure
                   THEN /\ closed_' = TRUE
                        /\ finishCount' =
                              IF c = "NULL" THEN finishCount
                              ELSE finishCount + 1
                   ELSE UNCHANGED <<closed_, finishCount>>
    /\ lastOp' = "Connection"
    /\ callClosed' = FALSE
    /\ UNCHANGED <<variant, cursorId, pending_, queued, busy, uaf, opCount,
                   lastResult, callObtained, asyncQueued, stale>>
    /\ UNCHANGED <<queryLocals, resultObjects, asyncGhosts>>
    /\ UNCHANGED callTrace
    /\ UNCHANGED cursorNames
    /\ UNCHANGED waited
    /\ UNCHANGED copyState
    /\ UNCHANGED inFlight

\* a public call can begin: the object exists and no call is running
CanCall == phase = "alive" /\ pc = "idle" /\ opCount < MaxOps

\* void close()
Close ==
    /\ CanCall
    /\ CloseEffect
    /\ opCount' = opCount + 1
    /\ lastOp' = "close"
    /\ lastOutcome' = "returned"
    /\ callClosed' = closed_
    /\ UNCHANGED <<variant, phase, conn_, connStatus, cursorId, pending_,
                   uaf, lastResult, callObtained>>
    /\ UNCHANGED <<queryLocals, resultObjects, asyncGhosts>>
    /\ UNCHANGED ctorText
    /\ UNCHANGED callTrace
    /\ UNCHANGED cursorNames
    /\ UNCHANGED waited
    /\ UNCHANGED copyState

\* ~Connection(): if (! closed_) { PQfinish(conn_); closed_ = true; }
Destroy ==
    /\ phase = "alive"
    /\ pc = "idle"
    /\ phase' = "destroyed"
    /\ finishCount' = IF ~closed_ THEN finishCount + 1 ELSE finishCount
    /\ closed_' = TRUE
    /\ queued' = 0
    /\ busy' = FALSE
    /\ asyncQueued' = FALSE
    /\ stale' = 0
    /\ lastOp' = "~Connection"
    /\ lastOutcome' = "returned"
    /\ callClosed' = closed_
    /\ UNCHANGED <<variant, conn_, connStatus, cursorId, pending_, uaf,
                   opCount, lastResult, callObtained>>
    /\ UNCHANGED <<queryLocals, resultObjects, asyncGhosts>>
    /\ UNCHANGED ctorText
    /\ UNCHANGED callTrace
    /\ UNCHANGED cursorNames
    /\ UNCHANGED waited
    /\ UNCHANGED copyState
    /\ UNCHANGED inFlight

\* operator<< of an int that is not negative: its decimal digits
DigitChars == <<"0", "1", "2", "3", "4", "5", "6", "7", "8", "9">>
RECURSIVE Digits(_)
Digits(n) ==
    IF n < 10 THEN <<DigitChars[n + 1]>>
    ELSE Digits(n \div 10) \o <<DigitChars[(n % 10) + 1]>>

\* s << "mapnik_" << id
CursorName(id) == <<"mapnik_">> \o Digits(id)

\* new_cursor_name using cursorId without incrementing it
NextCursorId_same(id) == id

\* cursorId after cursorId++
NextCursorId(id) == id + 1

\* std::string new_cursor_name(): s << "mapnik_" << (cursorId++)
NewCursorName ==
    /\ CanCall
    /\ cursorId' = NextCursorId(cursorId)
    /\ lastName' = CursorName(cursorId)
    /\ names' = names \cup {CursorName(cursorId)}
    /\ cursorCalls' = cursorCalls + 1
    /\ opCount' = opCount + 1
    /\ lastOp' = "new_cursor_name"
    /\ lastOutcome' = "returned"
    /\ callClosed' = closed_
    /\ UNCHANGED <<variant, phase, conn_, connStatus, closed_, pending_,
                   queued, busy, finishCount, uaf, lastResult, callObtained,
                   asyncQueued, stale>>
    /\ UNCHANGED <<queryLocals, resultObjects, asyncGhosts>>
    /\ UNCHANGED ctorText
    /\ UNCHANGED callTrace
    /\ UNCHANGED waited
    /\ UNCHANGED copyState
    /\ UNCHANGED inFlight

\* std::string client_encoding() const: PQparameterStatus(conn_, ...)
\* a caller asks isOK(): PQstatus(conn_) is evaluated only when closed_ is
\* false (short-circuit &&)
IsOKCall ==
    /\ CanCall
    /\ lastOutcome' = IF isOK THEN "true" ELSE "false"
    /\ uaf' = (uaf \/ (~closed_ /\ ~HandleLive))
    /\ opCount' = opCount + 1
    /\ lastOp' = "isOK"
    /\ callClosed' = closed_
    /\ UNCHANGED <<variant, phase, conn_, connStatus, cursorId, closed_,
                   pending_, queued, busy, finishCount, lastResult,
                   callObtained, asyncQueued, stale>>
    /\ UNCHANGED <<queryLocals, resultObjects, asyncGhosts>>
    /\ UNCHANGED ctorText
    /\ UNCHANGED callTrace
    /\ UNCHANGED cursorNames
    /\ UNCHANGED waited
    /\ UNCHANGED copyState
    /\ UNCHANGED inFlight

\* a caller asks status(): conn_ is only compared with null; the handle is
\* read by isOK() when closed_ is false and by PQerrorMessage when isOK()
StatusCall ==
    /\ CanCall
    /\ lastOutcome' = status
    /\ uaf' = (uaf \/ (conn_ = "handle" /\ ~closed_ /\ ~HandleLive))
    /\ opCount' = opCount + 1
    /\ lastOp' = "status"
    /\ callClosed' = closed_
    /\ UNCHANGED <<variant, phase, conn_, connStatus, cursorId, closed_,
                   pending_, queued, busy, finishCount, lastResult,
                   callObtained, asyncQueued, stale>>
    /\ UNCHANGED <<queryLocals, resultObjects, asyncGhosts>>
    /\ UNCHANGED ctorText
    /\ UNCHANGED callTrace
    /\ UNCHANGED cursorNames
    /\ UNCHANGED waited
    /\ UNCHANGED copyState
    /\ UNCHANGED inFlight

\* return PQparameterStatus(conn_, "client_encoding"); the std::string is
\* built from the returned pointer, and from a null pointer (a parameter
\* the server did not report) the construction throws std::logic_error,
\* which ends the process unless the caller catches it
ClientEncoding ==
    /\ CanCall
    /\ uaf' = (uaf \/ ~HandleLive)
    /\ opCount' = opCount + 1
    /\ lastOp' = "client_encoding"
    /\ \E r \in {"value", "NULL"}, caught \in BOOLEAN :
        IF r = "value"
        THEN /\ lastOutcome' = "returned"
             /\ UNCHANGED phase
        ELSE IF caught
             THEN /\ lastOutcome' = "logic_error"
                  /\ UNCHANGED phase
             ELSE /\ lastOutcome' = "crash"
                  /\ phase' = "crashed"
    /\ callClosed' = closed_
    /\ UNCHANGED <<variant, conn_, connStatus, cursorId, closed_,
                   pending_, queued, busy, finishCount, lastResult,
                   callObtained, asyncQueued, stale>>
    /\ UNCHANGED <<queryLocals, resultObjects, asyncGhosts>>
    /\ UNCHANGED ctorText
    /\ UNCHANGED callTrace
    /\ UNCHANGED cursorNames
    /\ UNCHANGED waited
    /\ UNCHANGED copyState
    /\ UNCHANGED inFlight

\* A libpq call on a handle that PQfinish has freed is undefined: besides
\* returning some value (the actions below), it can end the process.
UseAfterFinishCrash ==
    /\ CanCall
    /\ ~HandleLive
    /\ \E op \in ProtocolOps :
        /\ (op \in {"executeAsyncQuery", "getNextAsyncResult",
                    "getAsyncResult"} => variant = "connection_hpp")
        /\ lastOp' = op
    /\ phase' = "crashed"
    /\ uaf' = TRUE
    /\ opCount' = opCount + 1
    /\ lastOutcome' = "crash"
    /\ callClosed' = closed_
    /\ UNCHANGED <<variant, conn_, connStatus, cursorId, closed_, pending_,
                   queued, busy, finishCount, lastResult, callObtained,
                   asyncQueued, stale>>
    /\ UNCHANGED <<queryLocals, resultObjects, asyncGhosts>>
    /\ UNCHANGED ctorText
    /\ UNCHANGED callTrace
    /\ UNCHANGED cursorNames
    /\ UNCHANGED waited
    /\ UNCHANGED copyState
    /\ UNCHANGED inFlight


\* ---------------------------------------------------------------- execute
\* execute's loop stopping after the first result object
ExecuteOk_first(sts, ok0) ==
    IF sts = <<>> THEN ok0 ELSE Head(sts) = "PGRES_COMMAND_OK"

\* ok after the loop of execute over the result objects with statuses sts,
\* ok0 being its value before:
\* while ( result = PQgetResult(conn_) )
\*   { ok = (PQresultStatus(result) == PGRES_COMMAND_OK); PQclear(result); }
RECURSIVE ExecuteOk(_, _)
ExecuteOk(sts, ok0) ==
    IF sts = <<>> THEN ok0
    ELSE ExecuteOk(Tail(sts), Head(sts) = "PGRES_COMMAND_OK")

\* bool execute(sql) const: PQsendQuery, then PQgetResult/PQclear until null
Execute ==
    /\ CanCall
    /\ \E sent \in {0, 1} :
        IF sent = 0
            THEN /\ lastOutcome' = "false"
                 /\ connStatus' \in StatusAfterIO
                 /\ callObtained' = {}
                 /\ callLast' = "none"
                 /\ callSent' = 0
                 /\ stale' = queued
                 /\ UNCHANGED <<queued, busy, nextId, released, asyncQueued,
                                phase, inFlight>>
        ELSE
         \E k \in CanQueue, cp \in {"none", "blocked"} \cup CopyStatuses :
          LET n == queued + k
          IN
            IF cp = "blocked"
            THEN \* after n result objects PQgetResult waits for the server
                 \* for ever: execute has no timeout
                 /\ lastOutcome' = "never_returns"
                 /\ phase' = "hung"
                 /\ IF n = 0 THEN callLast' = "none"
                             ELSE callLast' \in FinalStatuses
                 /\ callSent' = 1
                 /\ callObtained' = NewIds(n)
                 /\ released' = released \cup NewIds(n)
                 /\ nextId' = nextId + n
                 /\ inFlight' = TRUE
                 /\ UNCHANGED <<connStatus, queued, stale, busy, asyncQueued>>
            ELSE IF cp # "none"
            THEN \* after n result objects the handle is in a COPY state:
                 \* PQgetResult never returns null and the loop never ends
                 /\ lastOutcome' = "never_returns"
                 /\ phase' = "hung"
                 /\ callLast' = cp
                 /\ callSent' = 1
                 /\ callObtained' = NewIds(n + 1)
                 /\ released' = released \cup NewIds(n + 1)
                 /\ nextId' = nextId + n + 1
                 /\ inFlight' = TRUE
                 /\ UNCHANGED <<connStatus, queued, stale, busy, asyncQueued>>
            ELSE
               \E sts \in [1 .. n -> FinalStatuses] :
                 /\ lastOutcome' =
                        IF ExecuteOk(sts, FALSE) THEN "true" ELSE "false"
                 /\ connStatus' \in IF ExecuteOk(sts, FALSE)
                                    THEN {connStatus} ELSE StatusAfterIO
                 /\ callLast' = IF n > 0 THEN sts[n] ELSE "none"
                 /\ callSent' = 1
                 /\ callObtained' = NewIds(n)
                 /\ released' = released \cup NewIds(n)
                 /\ nextId' = nextId + n
                 /\ queued' = 0
                 /\ stale' = 0
                 /\ busy' = FALSE
                 /\ asyncQueued' = FALSE
                 /\ inFlight' = FALSE
                 /\ UNCHANGED phase
    /\ uaf' = (uaf \/ ~HandleLive)
    /\ submitPending' = (submitPending \/ pending_)
    /\ submitUndrained' = (submitUndrained \/ asyncQueued)
    /\ callPending' = pending_
    /\ callClosed' = closed_
    /\ callDrained' = FALSE
    /\ opCount' = opCount + 1
    /\ lastOp' = "execute"
    /\ UNCHANGED <<variant, conn_, cursorId, closed_, pending_, finishCount,
                   lastResult, asyncSubmitted, held, returned, doubleFree>>
    /\ UNCHANGED queryLocals
    /\ UNCHANGED ctorText
    /\ UNCHANGED cursorNames
    /\ UNCHANGED waited
    /\ UNCHANGED copyState

\* ----------------------------------------------------------- executeQuery
\* executeQuery(sql, type), up to the throw after a failed submission:
\* timer started, PQsendQuery or PQsendQueryParams, PQsocket.  A handle
\* without a socket has no server behind it that delivers result objects.
ExecuteQuery ==
    /\ CanCall
    /\ \E type \in {0, 1}, success \in {0, 1}, sockOk \in BOOLEAN :
        /\ callSent' = success
        /\ IF success = 0 \/ ~sockOk
           THEN /\ pc' = "idle"
                /\ lastOutcome' = "QueryFailed_submit"
                /\ connStatus' \in StatusAfterIO
                /\ UNCHANGED <<queued, inFlight>>
           ELSE /\ pc' = "consume"
                /\ lastOutcome' = "running"
                /\ \E k \in CanQueue : queued' = queued + k
                /\ inFlight' = TRUE
                /\ UNCHANGED connStatus
    /\ stale' = queued
    /\ result' = 0
    /\ ok' = FALSE
    /\ elapsed' = 0
    /\ msleft' = 0
    /\ busyAtBudget' = FALSE
    /\ callObtained' = {}
    /\ uaf' = (uaf \/ ~HandleLive)
    /\ submitPending' = (submitPending \/ pending_)
    /\ submitUndrained' = (submitUndrained \/ asyncQueued)
    /\ callPending' = pending_
    /\ callClosed' = closed_
    /\ opCount' = opCount + 1
    /\ lastOp' = "executeQuery"
    /\ UNCHANGED <<variant, phase, conn_, cursorId, closed_,
                   pending_, busy, finishCount, lastResult, asyncSubmitted,
                   asyncQueued>>
    /\ UNCHANGED resultObjects
    /\ UNCHANGED ctorText
    /\ callLast' = "none"
    /\ callDrained' = FALSE
    /\ UNCHANGED cursorNames
    /\ waited' = 0
    /\ copyState' = "none"

\* executeQuery throwing after a failed select() without calling close()
SelectFailureCloses_skipped == FALSE

\* whether executeQuery calls close() when select() returned less than 1
SelectFailureCloses == TRUE

\* whether executeQuery releases the result it holds when select() failed
SelectFailureClears == FALSE

\* PQisBusy(conn_): false while a live handle is in a COPY state
CanBeBusy == IF HandleLive /\ copyState # "none" THEN {FALSE} ELSE BOOLEAN

\* success = PQconsumeInput(conn_); if ( PQisBusy(conn_) ) { msleft = ... }
EQ_Consume ==
    /\ pc = "consume"
    /\ \E success \in {0, 1} :
        IF success = 0
        THEN /\ connStatus' \in StatusAfterIO
             /\ ok' = FALSE
             /\ pc' = "final"
             /\ copyState' = "none"
             /\ UNCHANGED <<busy, elapsed, msleft, busyAtBudget>>
        ELSE /\ \E b \in CanBeBusy :
                /\ busy' = b
                /\ UNCHANGED copyState
                /\ IF b
                   THEN \E now \in TimerReadings(elapsed) :
                          /\ elapsed' = now
                          /\ msleft' = MsLeft(now)
                          /\ busyAtBudget' =
                                (busyAtBudget
                                   \/ now >= statement_timeout_ * 1000)
                          /\ pc' = "select"
                   ELSE /\ pc' = "get"
                        /\ UNCHANGED <<elapsed, msleft, busyAtBudget>>
             /\ UNCHANGED <<connStatus, ok>>
    /\ uaf' = (uaf \/ ~HandleLive)
    /\ UNCHANGED <<variant, phase, conn_, cursorId, closed_, pending_, queued,
                   result, finishCount, opCount, lastOp, lastOutcome,
                   lastResult, callObtained, callClosed, asyncQueued, stale>>
    /\ UNCHANGED <<resultObjects, asyncGhosts>>
    /\ UNCHANGED ctorText
    /\ UNCHANGED callTrace
    /\ UNCHANGED cursorNames
    /\ UNCHANGED waited
    /\ UNCHANGED inFlight

\* Durations, in microseconds, after which a select call may return before
\* its timeout expires: at once, when the socket is readable already, or
\* part-way through the timeout
WaitTimes == {0, 1500000}

\* How long select(..., &toutval) can have blocked when it returns ret:
\* not at all on a rejected timeout, the whole timeout when it expires
\* (ret = 0), and otherwise one of WaitTimes or the whole timeout.
WaitDurations(ms, ret) ==
    IF ms < 0 THEN {0}
    ELSE IF ret = 0 THEN {ms * 1000}
    ELSE {d \in WaitTimes \cup {ms * 1000} : d <= ms * 1000}

\* int ret = select(sock + 1, &input_mask, NULL, NULL, &toutval);
\* if ( ret < 1 ) { ... close(); throw ...; }   } while ( PQisBusy(conn_) );
EQ_Select ==
    /\ pc = "select"
    /\ \E ret \in SelectReturns(msleft) :
      \E d \in WaitDurations(msleft, ret) :
        /\ waited' = waited + d
        /\ IF ret < 1
           THEN
             /\ lastOutcome' = IF ret = 0 THEN "timeout" ELSE "select_error"
             /\ pc' = "idle"
             /\ IF SelectFailureCloses
                THEN CloseEffect
                ELSE UNCHANGED <<finishCount, closed_, queued, stale, busy,
                                 asyncQueued, inFlight>>
             /\ IF SelectFailureClears /\ result # 0
                THEN /\ released' = released \cup {result}
                     /\ held' = held \ {result}
                ELSE UNCHANGED <<released, held>>
             /\ result' = 0
             /\ ok' = FALSE
             /\ elapsed' = 0
             /\ msleft' = 0
             /\ copyState' = "none"
           ELSE
             /\ pc' = "consume"
             /\ UNCHANGED <<copyState, inFlight>>
             /\ elapsed' = AfterWait(elapsed, d)
             /\ UNCHANGED <<lastOutcome, finishCount, closed_, queued, stale,
                            busy, asyncQueued, released, held, result, ok,
                            msleft>>
    /\ UNCHANGED <<variant, phase, conn_, connStatus, cursorId, pending_,
                   nextId, returned, doubleFree, uaf, opCount, lastOp,
                   lastResult, callObtained, callClosed, busyAtBudget>>
    /\ UNCHANGED asyncGhosts
    /\ UNCHANGED ctorText
    /\ UNCHANGED callTrace
    /\ UNCHANGED cursorNames

\* executeQuery accepting every result that is not an error result
RowsOk_notError(st) == st # "PGRES_FATAL_ERROR"

\* ok = (PQresultStatus(tmp) == PGRES_TUPLES_OK);
RowsOk(st) == st = "PGRES_TUPLES_OK"

\* the statuses the next result object PQgetResult hands over can have: on
\* a handle in a COPY state that status again
NextStatuses == IF copyState # "none" THEN {copyState} ELSE Statuses

\* PGresult *tmp = PQgetResult(conn_); if ( ! tmp ) break;
\* ok = (PQresultStatus(tmp) == PGRES_TUPLES_OK);
\* if ( result ) PQclear(result); result = tmp;
EQ_Get ==
    /\ pc = "get"
    /\ IF queued = 0
       THEN /\ pc' = "final"
            /\ callDrained' = TRUE
            /\ inFlight' = FALSE
            /\ UNCHANGED <<queued, stale, result, ok, asyncQueued, callObtained,
                           callLast, copyState>>
            /\ UNCHANGED resultObjects
       ELSE \E st \in NextStatuses :
            /\ ok' = RowsOk(st)
            /\ callLast' = st
            /\ UNCHANGED <<callDrained, inFlight>>
            /\ IF copyState # "none" /\ st = copyState
               THEN \* one more pass of the loop in a COPY state: the result
                    \* object of the pass before is released and one like
                    \* it takes its place; these are not numbered apart
                    UNCHANGED <<result, nextId, held, released, doubleFree,
                                callObtained>>
               ELSE /\ result' = nextId
                    /\ nextId' = nextId + 1
                    /\ held' = (held \ {result}) \cup {nextId}
                    /\ released' = IF result # 0 THEN released \cup {result}
                                   ELSE released
                    /\ doubleFree' = (doubleFree \/ result \in released)
                    /\ callObtained' = callObtained \cup {nextId}
            /\ copyState' = IF st \in CopyStatuses THEN st ELSE "none"
            /\ queued' = IF st \in CopyStatuses THEN queued ELSE queued - 1
            /\ stale' = IF st \in CopyStatuses \/ stale = 0 THEN stale
                         ELSE stale - 1
            /\ asyncQueued' = IF st \in CopyStatuses THEN asyncQueued
                               ELSE (asyncQueued /\ queued > 1)
            /\ pc' = "consume"
            /\ UNCHANGED returned
    /\ uaf' = (uaf \/ ~HandleLive)
    /\ UNCHANGED <<variant, phase, conn_, connStatus, cursorId, closed_,
                   pending_, busy, elapsed, msleft, finishCount, opCount,
                   lastOp, lastOutcome, lastResult, callClosed, busyAtBudget>>
    /\ UNCHANGED asyncGhosts
    /\ UNCHANGED ctorText
    /\ UNCHANGED callSent
    /\ UNCHANGED cursorNames
    /\ UNCHANGED waited

\* if (!ok) { ...; if (result) PQclear(result); throw ...; }
\* return boost::make_shared<ResultSet>(result);
\* executeQuery releasing its result object on every exit
FinalClears_always(ok0) == TRUE

\* if (!ok) { ...; if (result) PQclear(result); throw ...; }: the result
\* object is released on the failing exit only
FinalClears(ok0) == ~ok0

EQ_Final ==
    /\ pc = "final"
    /\ lastOutcome' = IF ~ok THEN "QueryFailed_status" ELSE "returned"
    /\ released' = IF FinalClears(ok) /\ result # 0
                   THEN released \cup {result}
                   ELSE released
    /\ doubleFree' = (doubleFree \/ (FinalClears(ok) /\ result \in released))
    /\ returned' = IF ok THEN returned \cup {result} ELSE returned
    /\ lastResult' = IF ok THEN result ELSE lastResult
    /\ held' = held \ {result}
    /\ pc' = "idle"
    /\ result' = 0
    /\ ok' = FALSE
    /\ elapsed' = 0
    /\ msleft' = 0
    /\ UNCHANGED <<variant, phase, conn_, connStatus, cursorId, closed_,
                   pending_, queued, busy, nextId, finishCount, uaf, opCount,
                   lastOp, callObtained, callClosed, busyAtBudget,
                   asyncQueued, stale>>
    /\ UNCHANGED asyncGhosts
    /\ UNCHANGED ctorText
    /\ UNCHANGED callTrace
    /\ UNCHANGED cursorNames
    /\ UNCHANGED waited
    /\ copyState' = "none"
    /\ UNCHANGED inFlight


\* ------------------------------------------------- asynchronous protocol
\* clearAsyncResult without its last statement
PendingAfterClear_kept == pending_

\* pending_ after clearAsyncResult(result): pending_ = false;
PendingAfterClear == FALSE

\* executeAsyncQuery without pending_ = true
PendingAfterSubmit_unset == pending_

\* pending_ after a successful submission in executeAsyncQuery
PendingAfterSubmit == TRUE

\* pending_ after getAsyncResult() returned a ResultSet: not assigned
PendingAfterResult == pending_

\* whether the failure path of the asynchronous calls calls close()
AsyncFailureCloses == TRUE

\* The failure path shared by the three asynchronous calls:
\* clearAsyncResult(result), which releases result and every result object
\* PQgetResult still returns and clears pending_; close(); throw.
\* PQgetResult hands over n result objects in all, the one in result
\* included, before it returns null.
AsyncFail(n) ==
    /\ released' = released \cup NewIds(n)
    /\ callObtained' = NewIds(n)
    /\ nextId' = nextId + n
    /\ pending_' = PendingAfterClear
    /\ IF AsyncFailureCloses
       THEN /\ finishCount' = FinishAfterClose
            /\ closed_' = ClosedAfterClose
       ELSE UNCHANGED <<finishCount, closed_>>
    /\ queued' = 0
    /\ inFlight' = FALSE
    /\ stale' = 0
    /\ busy' = FALSE
    /\ asyncQueued' = FALSE
    /\ lastOutcome' = "QueryFailed_async"
    /\ UNCHANGED <<held, returned, doubleFree, lastResult>>

\* PQgetResult waits for the server and has no timeout: it can block for
\* ever while a statement is in flight (and anything can happen on a freed
\* handle)
CanBlock == inFlight \/ ~HandleLive

\* An asynchronous call that never returns, after n result objects were
\* obtained and released: PQgetResult blocks for ever waiting for the
\* server, or it hands over a result object on every call (a handle in a
\* COPY state, or a freed handle).  Neither pending_ = false nor the
\* close() and the throw after it are reached.
AsyncHang(n) ==
    /\ released' = released \cup NewIds(n)
    /\ callObtained' = NewIds(n)
    /\ nextId' = nextId + n
    /\ lastOutcome' = "never_returns"
    /\ phase' = "hung"
    /\ UNCHANGED <<pending_, finishCount, closed_, queued, stale, busy,
                   asyncQueued, held, returned, doubleFree, lastResult,
                   inFlight>>

\* bool executeAsyncQuery(sql, type)
ExecuteAsyncQuery ==
    /\ CanCall
    /\ variant = "connection_hpp"
    /\ \E type \in {0, 1}, res \in {0, 1} :
        IF res # 1
        THEN /\ \E n \in Delivers :
                  \/ AsyncFail(n) /\ UNCHANGED phase
                  \/ \E j \in 0 .. n : (j > 0 \/ CanBlock) /\ AsyncHang(j)
             /\ callSent' = res
             /\ UNCHANGED asyncSubmitted
        ELSE \E k \in CanQueue :
             /\ pending_' = PendingAfterSubmit
             /\ inFlight' = TRUE
             /\ UNCHANGED phase
             /\ callSent' = res
             /\ queued' = queued + k
             /\ stale' = queued
             /\ asyncQueued' = (queued + k > 0)
             /\ asyncSubmitted' = TRUE
             /\ lastOutcome' = "returned"
             /\ callObtained' = {}
             /\ UNCHANGED <<finishCount, closed_, busy, lastResult>>
             /\ UNCHANGED resultObjects
    /\ uaf' = (uaf \/ ~HandleLive)
    /\ submitPending' = (submitPending \/ pending_)
    /\ submitUndrained' = (submitUndrained \/ asyncQueued)
    /\ callPending' = pending_
    /\ callClosed' = closed_
    /\ opCount' = opCount + 1
    /\ lastOp' = "executeAsyncQuery"
    /\ UNCHANGED <<variant, conn_, connStatus, cursorId>>
    /\ UNCHANGED queryLocals
    /\ UNCHANGED ctorText
    /\ callLast' = "none"
    /\ callDrained' = FALSE
    /\ UNCHANGED cursorNames
    /\ UNCHANGED waited
    /\ UNCHANGED copyState

\* a ResultSet wrapping the first of the n result objects the handle can
\* hand over is returned
AsyncReturn(n) ==
    /\ returned' = returned \cup {nextId}
    /\ lastResult' = nextId
    /\ callObtained' = {nextId}
    /\ nextId' = nextId + 1
    /\ queued' = n - 1
    /\ stale' = IF stale > 0 THEN stale - 1 ELSE 0
    /\ asyncQueued' = (asyncQueued /\ queued > 1)
    /\ lastOutcome' = "returned"
    /\ UNCHANGED <<held, released, doubleFree, finishCount, closed_, busy,
                   inFlight>>

\* getNextAsyncResult rejecting error results only
NextResultRejected_fatalOnly(st) == st = "PGRES_FATAL_ERROR"

\* if( result && (PQresultStatus(result) != PGRES_TUPLES_OK)): the test on
\* the status of a result object that was obtained
NextResultRejected(st) == st # "PGRES_TUPLES_OK"

\* boost::shared_ptr<ResultSet> getNextAsyncResult()
GetNextAsyncResult ==
    /\ CanCall
    /\ variant = "connection_hpp"
    /\ \/ \* the first PQgetResult never returns
          /\ CanBlock
          /\ callLast' = "none"
          /\ AsyncHang(0)
       \/ \E n \in Delivers :
        IF n = 0
        THEN \* result is null: a ResultSet wrapping null is returned
             /\ callLast' = "none"
             /\ inFlight' = FALSE
             /\ lastOutcome' = "returned"
             /\ lastResult' = 0
             /\ callObtained' = {}
             /\ UNCHANGED <<pending_, queued, stale, busy, finishCount,
                            closed_, asyncQueued, phase>>
             /\ UNCHANGED resultObjects
        ELSE \E st \in Statuses :
             /\ callLast' = st
             /\ IF NextResultRejected(st)
                THEN \/ st \notin CopyStatuses /\ AsyncFail(n)
                                                /\ UNCHANGED phase
                     \/ \E j \in 1 .. n : AsyncHang(j)
                ELSE /\ AsyncReturn(n)
                     /\ UNCHANGED <<pending_, phase>>
    /\ uaf' = (uaf \/ ~HandleLive)
    /\ callClosed' = closed_
    /\ opCount' = opCount + 1
    /\ lastOp' = "getNextAsyncResult"
    /\ UNCHANGED <<variant, conn_, connStatus, cursorId>>
    /\ UNCHANGED <<queryLocals, asyncGhosts>>
    /\ UNCHANGED ctorText
    /\ UNCHANGED <<callSent, callDrained>>
    /\ UNCHANGED cursorNames
    /\ UNCHANGED waited
    /\ UNCHANGED copyState

\* boost::shared_ptr<ResultSet> getAsyncResult()
GetAsyncResult ==
    /\ CanCall
    /\ variant = "connection_hpp"
    /\ \/ \* the first PQgetResult never returns
          /\ CanBlock
          /\ callLast' = "none"
          /\ AsyncHang(0)
       \/ \E n \in Delivers :
        IF n = 0
        THEN /\ callLast' = "none"
             /\ AsyncFail(n)
             /\ UNCHANGED phase
        ELSE \E st \in Statuses :
             /\ callLast' = st
             /\ IF st # "PGRES_TUPLES_OK"
                THEN \/ st \notin CopyStatuses /\ AsyncFail(n)
                                                /\ UNCHANGED phase
                     \/ \E j \in 1 .. n : AsyncHang(j)
                ELSE /\ AsyncReturn(n)
                     /\ pending_' = PendingAfterResult
                     /\ UNCHANGED phase
    /\ uaf' = (uaf \/ ~HandleLive)
    /\ callClosed' = closed_
    /\ opCount' = opCount + 1
    /\ lastOp' = "getAsyncResult"
    /\ UNCHANGED <<variant, conn_, connStatus, cursorId>>
    /\ UNCHANGED <<queryLocals, asyncGhosts>>
    /\ UNCHANGED ctorText
    /\ UNCHANGED <<callSent, callDrained>>
    /\ UNCHANGED cursorNames
    /\ UNCHANGED waited
    /\ UNCHANGED copyState

\* ------------------------------------------------------------------ Next
Next ==
    \/ Construct
    \/ Close
    \/ Destroy
    \/ NewCursorName
    \/ ClientEncoding
    \/ IsOKCall
    \/ StatusCall
    \/ UseAfterFinishCrash
    \/ Execute
    \/ ExecuteQuery
    \/ EQ_Consume
    \/ EQ_Select
    \/ EQ_Get
    \/ EQ_Final
    \/ ExecuteAsyncQuery
    \/ GetNextAsyncResult
    \/ GetAsyncResult

Spec == Init /\ [][Next]_vars


\* ---------------------------------------------------------------- claims
AsyncCalls == {"executeAsyncQuery", "getNextAsyncResult", "getAsyncResult"}
QueryCalls == AsyncCalls \cup {"executeQuery"}

\* C1: over every sequence of operations PQfinish is called on the handle at
\* most once, and a close() on a connection that is already closed changes
\* neither a field of the object nor the state of the handle or of a result.
C1_CloseReleasesOnce ==
    /\ [](finishCount <= 1)
    /\ [][(closed_ /\ lastOp' = "close" /\ opCount' # opCount)
            => CoreState' = CoreState]_vars

\* C1 witness: close() was called on a closed connection, the handle having
\* been released once
C1_Witness ==
    lastOp = "close" /\ callClosed /\ finishCount = 1 /\ closed_

\* C2: no libpq call is ever made on the handle after PQfinish released it
C2_NoProtocolOnReleasedHandle == ~uaf

\* C3: after a successful executeAsyncQuery, when getAsyncResult() has
\* returned a ResultSet, isPending() is false
C3_PendingClearedByGetAsyncResult ==
    (asyncSubmitted /\ lastOp = "getAsyncResult" /\ lastOutcome = "returned")
        => ~isPending

\* C4: right after executeAsyncQuery returned, isPending() is true; right
\* after executeAsyncQuery, getNextAsyncResult or getAsyncResult raised an
\* error, isPending() is false
C4_PendingAfterAsyncCall ==
    /\ (lastOp = "executeAsyncQuery" /\ lastOutcome = "returned")
          => isPending
    /\ (lastOp \in AsyncCalls /\ lastOutcome \in Errors) => ~isPending

\* C4 witness: executeAsyncQuery was called while pending_ was true and
\* raised its error
C4_Witness ==
    /\ lastOp = "executeAsyncQuery"
    /\ lastOutcome = "QueryFailed_async"
    /\ callPending
    /\ ~isPending

\* C5 as claimed: no query is submitted while pending_ is true
C5_NoSubmitWhilePending == ~submitPending

\* C5 as amended: a query is submitted while result objects of an earlier
\* asynchronous submission are still queued on the handle only if the caller
\* submitted while isPending() was true
C5_UndrainedSubmitOnlyWhenPending == submitUndrained => submitPending

\* C5 witness: an asynchronous submission made while isPending() was false
\* has result objects queued
C5_Witness ==
    /\ lastOp = "executeAsyncQuery"
    /\ lastOutcome = "returned"
    /\ asyncQueued
    /\ ~submitPending

\* C6: when executeQuery or an asynchronous call raises an error, every
\* result object it obtained from the handle has been released
C6_NoLeakOnFailure ==
    (lastOp \in QueryCalls /\ lastOutcome \in Errors)
        => callObtained \subseteq released

\* C7: an executeQuery that found the handle busy when the elapsed time had
\* reached statement_timeout_ ends with the timeout error, the connection
\* closed and isOK() false
C7_TimeoutAtBudget ==
    (lastOp = "executeQuery" /\ pc = "idle" /\ busyAtBudget)
        => (lastOutcome = "timeout" /\ closed_ /\ ~isOK)

\* C8: when a call ended with the timeout error, the select error or the
\* error of an asynchronous call, closed_ is true and isOK() is false, and
\* once closed_ is true it stays true and isOK() stays false
C8_ForceCloseBeforeError ==
    /\ [](lastOutcome \in {"timeout", "select_error", "QueryFailed_async"}
            => (closed_ /\ ~isOK))
    /\ [][closed_ => (closed_' /\ ~isOK')]_vars

\* C8 witness: executeQuery ended with the timeout error on a connection
\* that was open when the call began
C8_Witness ==
    /\ lastOp = "executeQuery"
    /\ lastOutcome = "timeout"
    /\ ~callClosed
    /\ closed_

\* C9: after a failing call the connection is closed or none of the result
\* objects of the failed operation is left queued on the handle
C9_NoStaleResultsAfterFailure ==
    (\/ lastOp \in QueryCalls /\ lastOutcome \in Errors
     \/ lastOp = "execute" /\ lastOutcome = "false")
        => (closed_ \/ queued <= stale)

\* C10: when the constructor threw, the handle PQconnectdb returned has been
\* released
C10_CtorFailureReleasesHandle ==
    (phase = "ctor_threw" /\ conn_ = "handle") => finishCount = 1

\* the strings an error text is made of
Parts(text) == {text[i] : i \in 1 .. Len(text)}

\* C11: the error text of a constructor that threw contains the server's
\* diagnostic text (PQerrorMessage), the marker "Connection string:" with
\* the given connection string, and of the string given to PQconnectdb
\* nothing but the connection string, so not the password
C11_CtorErrorCarriesDiagnostic ==
    phase = "ctor_threw"
        => /\ "PQerrorMessage" \in Parts(ctorErr)
           /\ "\nConnection string: '" \in Parts(ctorErr)
           /\ givenStr \in Parts(ctorErr)
           /\ Parts(ConnectWithPass(givenStr, givenPass)) \cap Parts(ctorErr)
                 = {givenStr}

C13_QueryReturnsLastResult ==
    (lastOp = "executeQuery" /\ pc = "idle" /\ callDrained
       /\ lastOutcome # "crash")
        => /\ lastOutcome = "returned" <=> callLast = "PGRES_TUPLES_OK"
           /\ lastOutcome = "returned" =>
                 /\ lastResult \in callObtained
                 /\ \A id \in callObtained : id <= lastResult
                 /\ lastResult \in returned \ released
                 /\ callObtained \ {lastResult} \subseteq released
           /\ lastOutcome # "returned" =>
                 /\ lastOutcome = "QueryFailed_status"
                 /\ callObtained \subseteq released

\* C13 witness: executeQuery fetched two result objects and returned the
\* second
C13_Witness ==
    /\ lastOp = "executeQuery"
    /\ lastOutcome = "returned"
    /\ callDrained
    /\ Cardinality(callObtained) >= 2

\* C14: the names new_cursor_name returned are pairwise distinct (there are
\* as many names as calls), each is "mapnik_" followed by the digits of the
\* value the counter had at the call; the counter starts at 0, counts the
\* calls, and only new_cursor_name changes it, by one
C14_CursorNamesUnique ==
    /\ [](/\ cursorId = cursorCalls
          /\ Cardinality(names) = cursorCalls
          /\ names = {<<"mapnik_">> \o Digits(i) :
                         i \in 0 .. (cursorCalls - 1)}
          /\ (lastOp = "new_cursor_name"
                => lastName = <<"mapnik_">> \o Digits(cursorId - 1)))
    /\ [][cursorId' # cursorId
            => (lastOp' = "new_cursor_name" /\ cursorId' = cursorId + 1)]_vars

\* C14 witness: new_cursor_name was called three times, other calls between
C14_Witness ==
    /\ cursorCalls >= 3
    /\ opCount > cursorCalls
    /\ lastOp = "new_cursor_name"

\* C15: the time executeQuery spends waiting for readiness, summed over all
\* the waits of one call, never exceeds statement_timeout_ milliseconds, and
\* every wait is given at most statement_timeout_ milliseconds minus the time
\* elapsed on the call's timer (msleft is in milliseconds, elapsed and waited
\* in microseconds).
C15_WaitsWithinBudget ==
    /\ waited <= statement_timeout_ * 1000
    /\ pc = "select" => msleft * 1000 <= statement_timeout_ * 1000 - elapsed

\* C16: isOK() answers true exactly when closed_ is false and the handle
\* does not report CONNECTION_BAD; status() answers "Uninitialized
\* connection" for a handle that was never created, the server's last error
\* message when isOK() holds and "Bad connection" otherwise; after close()
\* they answer false and "Bad connection" and make no call on the handle.
C16_StateQueries ==
    /\ [](lastOp = "isOK" =>
            (lastOutcome = "true"
               <=> (~closed_ /\ connStatus # "CONNECTION_BAD")))
    /\ [](lastOp = "status" =>
            lastOutcome =
               IF conn_ # "handle" THEN "Uninitialized connection"
               ELSE IF ~closed_ /\ connStatus # "CONNECTION_BAD"
                    THEN "PQerrorMessage"
                    ELSE "Bad connection")
    /\ []((phase = "ctor_threw" /\ conn_ = "NULL") =>
            ctorErr[2] = "Uninitialized connection")
    /\ []((lastOp = "isOK" /\ callClosed) => lastOutcome = "false")
    /\ []((lastOp = "status" /\ callClosed) => lastOutcome = "Bad connection")
    /\ [][(opCount' # opCount /\ lastOp' \in {"isOK", "status"} /\ closed_)
            => uaf' = uaf]_vars

\* status() was asked after close() released a handle that was healthy
C16_Witness ==
    /\ lastOp = "status"
    /\ callClosed
    /\ finishCount = 1
    /\ connStatus = "CONNECTION_OK"
    /\ lastOutcome = "Bad connection"

\* a getNextAsyncResult call has just returned a ResultSet
NextAsyncReturned ==
    /\ opCount' # opCount
    /\ lastOp' = "getNextAsyncResult"
    /\ lastOutcome' = "returned"

\* C17 (as stated): every getNextAsyncResult call that returns without error
\* returns a ResultSet wrapping a result object obtained from the handle with
\* status PGRES_TUPLES_OK and leaves pending_ and closed_ unchanged, also
\* when no result object was queued at the time of the call.
C17_NextAlwaysWrapsRowsOk ==
    [][NextAsyncReturned =>
          /\ pending_' = pending_
          /\ closed_' = closed_
          /\ lastResult' # 0
          /\ callObtained' = {lastResult'}
          /\ callLast' = "PGRES_TUPLES_OK"]_vars

\* C17 (amended): a getNextAsyncResult call that returns without error leaves
\* pending_ and closed_ unchanged and returns a ResultSet that wraps what
\* PQgetResult handed over: the one result object obtained, whose status is
\* PGRES_TUPLES_OK, or no result object when PQgetResult returned null.  On
\* a handle that was not released PQgetResult returns null exactly when no
\* result object is queued.
C17_NextWrapsWhatWasObtained ==
    [][NextAsyncReturned =>
          /\ pending_' = pending_
          /\ closed_' = closed_
          /\ IF callLast' = "none"
             THEN lastResult' = 0 /\ callObtained' = {}
             ELSE /\ lastResult' # 0
                  /\ lastResult' \in returned' \ returned
                  /\ callObtained' = {lastResult'}
                  /\ callLast' = "PGRES_TUPLES_OK"
          /\ HandleLive => (queued = 0 <=> lastResult' = 0)]_vars

\* getNextAsyncResult returned an empty ResultSet on a handle that was not
\* released, while pending_ is true
C17_Witness ==
    /\ lastOp = "getNextAsyncResult"
    /\ lastOutcome = "returned"
    /\ lastResult = 0
    /\ callObtained = {}
    /\ callLast = "none"
    /\ pending_
    /\ ~closed_
    /\ finishCount = 0

\* The calls that decide what an executeQuery call starts from (whether the
\* handle is released, which result objects are queued on it) and the steps
\* of executeQuery itself.
LiveNext ==
    \/ Construct
    \/ Close
    \/ ExecuteAsyncQuery
    \/ ExecuteQuery
    \/ EQ_Consume
    \/ EQ_Select
    \/ EQ_Get
    \/ EQ_Final

\* the timer of executeQuery is read later than it was read before
ClockAdvances == EQ_Consume /\ elapsed' > elapsed

\* The steps of a running executeQuery are taken (PQconsumeInput does not
\* block, select returns within its timeout, PQgetResult is called when the
\* handle is not busy), and time advances, as C18 assumes: a call that keeps
\* reading its timer eventually reads a later time.
LiveSpec ==
    /\ Init
    /\ [][LiveNext]_vars
    /\ WF_vars(EQ_Consume)
    /\ WF_vars(EQ_Select)
    /\ WF_vars(EQ_Get)
    /\ WF_vars(EQ_Final)
    /\ SF_vars(ClockAdvances)

\* C18: every executeQuery call eventually terminates, by returning a
\* ResultSet or raising an error, also when the handle stays busy forever
\* or the socket keeps becoming readable without a result being completed.
C18_ExecuteQueryTerminates == (pc # "idle") ~> (pc = "idle")

\* C19: whenever executeQuery enters the readiness wait, the timeout msleft
\* it hands to select lies between 0 and statement_timeout_ inclusive; it is
\* never negative.
C19_WaitBudgetInRange ==
    pc = "select" => (0 <= msleft /\ msleft <= statement_timeout_)

\* C20: each result object obtained from the handle is released by the
\* Connection at most once, and a result object handed to the caller inside
\* a ResultSet is never released, kept or read again by the Connection.
C20_ReleasedOnceNeverAfterReturn ==
    /\ ~doubleFree
    /\ released \cap returned = {}
    /\ held \cap returned = {}
    /\ result # 0 => result \notin (returned \cup released)

\* an executeQuery call obtained two result objects, released the first and
\* returned the second
C20_Witness ==
    /\ lastOp = "executeQuery"
    /\ lastOutcome = "returned"
    /\ Cardinality(callObtained) = 2
    /\ lastResult \in returned
    /\ (callObtained \ {lastResult}) \subseteq released

====
